---- MODULE Spec2Model ----
(***************************************************************************)
(* A model of pmon (src/pmon.c): CPU identification, MSR handle setup and  *)
(* the power sampling loop.                                                *)
(*                                                                         *)
(* Numbers.  The program computes in double.  A double here is an exact    *)
(* dyadic rational [n, e] = n / 2^e, kept in lowest terms; every operation *)
(* the program performs on the raw values of the model (products with a    *)
(* power of two, with 1e6, sums and differences) is exact in IEEE double   *)
(* for operands below 2^53, so the dyadic value is the double the program  *)
(* holds.  A value handed to printf has been multiplied by scale, which is *)
(* 1.0 / timeo: it is the rational [n, e, d] = n / (2^e * d); d = 0 is the *)
(* division by zero (an infinity or a NaN).                                *)
(*                                                                         *)
(* Output is the sequence of printf calls (format and arguments) of the    *)
(* current tick; stdout is flushed by fflush at the end of a tick and by   *)
(* exit(), so every call made is emitted.                                  *)
(***************************************************************************)
EXTENDS Integers, Sequences, FiniteSets, TLC

(* ------------------------------ bounds -------------------------------- *)
\* raw register values are drawn from 0..MaxRaw
MaxRaw == 1
\* sysconf(_SC_NPROCESSORS_CONF) is drawn from 1..MaxProcs
MaxProcs == 2
\* for the topology runs: processors from 1..MaxTopoProcs, and the share field
\* of cpuid 0x8000001e from 0..MaxShareField
MaxTopoProcs == 8
MaxShareField == 3

(* --------------------------- program constants ------------------------ *)
\* MSR addresses are 32-bit; they are written as <<high 16 bits, low 16 bits>>
AMD_ENERGY_CORE_MSR == <<49153, 666>>
AMD_ENERGY_PKG_MSR == <<49153, 667>>
AMD_ENERGY_PWR_UNIT_MSR == <<49153, 665>>
AMD_ENERGY_UNIT_MASK == 7936
INTEL_ENERGY_PKG_MSR == <<0, 1553>>
INTEL_ENERGY_DRAM_MSR == <<0, 1561>>
INTEL_ENERGY_PWR_UNIT_MSR == <<0, 1542>>
\* a static u_int that was never assigned
NoMsr == <<0, 0>>

(* ------------------------------ numbers ------------------------------- *)
RECURSIVE Pow2(_)
Pow2(k) == IF k = 0 THEN 1 ELSE 2 * Pow2(k - 1)

RECURSIVE Norm(_)
\* lowest terms of the dyadic n / 2^e
Norm(x) ==
    IF x.n = 0 THEN [n |-> 0, e |-> 0]
    ELSE IF x.e > 0 /\ x.n % 2 = 0 THEN Norm([n |-> x.n \div 2, e |-> x.e - 1])
    ELSE x

Dy(n, e) == Norm([n |-> n, e |-> e])

Zero == [n |-> 0, e |-> 0]

\* double subtraction a - b
DSub(a, b) ==
    IF b.n = 0 THEN a
    ELSE IF a.n = 0 THEN [n |-> 0 - b.n, e |-> b.e]
    ELSE IF a.e >= b.e THEN Dy(a.n - b.n * Pow2(a.e - b.e), a.e)
    ELSE Dy(a.n * Pow2(b.e - a.e) - b.n, b.e)

\* mutant: the sum keeps the last term only (= for +=)
DAdd_KeepsLast(a, b) == b

\* double addition a + b
DAdd(a, b) == DSub(a, [n |-> 0 - b.n, e |-> b.e])

\* the product of a double with scale = 1.0 / timeo, as passed to printf; with
\* timeo = 0 scale is infinite and the product is an infinity of the sign of x
\* (n = 1 or -1) or, for x = 0, a NaN (n = 0)
Scaled(x, s) ==
    IF s.den = 0
    THEN [n |-> IF x.n > 0 THEN 1 ELSE IF x.n < 0 THEN 0 - 1 ELSE 0, e |-> 0, d |-> 0]
    ELSE [n |-> x.n * s.num, e |-> x.e, d |-> s.den]

\* a printf call without a floating argument
NoVal == [n |-> 0, e |-> 0 - 1, d |-> 0]

(* ------------------------------ inputs -------------------------------- *)
\* CPUID leaf 1 EAX built from its fields (the inverse of the macros below)
MkCpuId(fam, extfam, mod, extmod) ==
    mod * 16 + fam * 256 + extmod * 65536 + extfam * 1048576

CPUID_TO_MODEL(id) ==
    \* ((id & 0xf0) >> 4) | ((id & 0xf0000) >> 12): the two fields do not overlap
    ((id \div 16) % 16) + 16 * ((id \div 65536) % 16)

CPUID_TO_FAMILY(id) ==
    ((id \div 256) % 16) + ((id \div 1048576) % 256)

\* the processor of a family and model as CPUID reports it: families above
\* 0xf use the extended field, models above 0xf the extended model field
IdOf(family, model) ==
    IF family > 15
    THEN MkCpuId(15, family - 15, model % 16, model \div 16)
    ELSE MkCpuId(family, 0, model % 16, model \div 16)

Vendors == {"AuthenticAMD", "GenuineIntel", "HygonGenuine"}

\* a machine: what it is (vendor, family, model) and what cpuid(1) reports
Machine(v, f, m) == [vendor |-> v, family |-> f, model |-> m, id |-> IdOf(f, m)]

\* the machines the sampling runs are explored on
RunMachines ==
    { Machine("AuthenticAMD", 25, 48),
      Machine("AuthenticAMD", 25, 2),
      Machine("GenuineIntel", 6, 79),
      Machine("GenuineIntel", 15, 6),
      Machine("HygonGenuine", 24, 0) }

\* the machines classification is explored on
Families == {6, 15, 22, 23, 24, 25, 26}
Models == {0, 1, 2, 8, 16, 17, 25, 48, 49, 79, 85, 86, 160}
AllMachines == { Machine(v, f, m) : v \in Vendors, f \in Families, m \in Models }

\* the interval argument in halves of a second (0.5, 2 and 2.5 seconds);
\* 0 stands for no argument
IntervalArgs == {0, 1, 4, 5}

\* the number of -v flags on the command line
VerboseArgs == {0, 1, 2, 3}

\* values of the power-unit register: exponent fields 0, 10, 16 and 31, with
\* bits outside the field set in some of them
PwrUnitData == {3, 2563, 659459, 7936 + 8192}

RawValues == 0 .. MaxRaw

\* what a read of memory beyond the softc array may return for `last`, besides
\* the value stored there: two doubles stand for all the others
StrayLast == {Zero, Dy(3, 16)}

(* ------------------------------ state --------------------------------- *)
VARIABLES
    hw,         \* the machine: vendor string, family and model, cpuid(1).eax,
                \* the share field of cpuid 0x8000001e, the configured processors
    shl31,      \* the sign of the value this build computes for (1 << 31);
                \* 0 as long as no shift by 31 has been asked for
    argv,       \* the command line: number of -v, interval argument
    pc,         \* position of the single control flow
    status,     \* exit status, -1 while running
    verbose, timeo, scale,
    cpu, cpu_family, cpu_model, pkg_msr, core_msr, dram_msr,
    share_count, cpu_count,
    amd_energy_units, energy_units, dram_units,
    softc,      \* the calloc'ed array, indices 0..cpu_count; <<>> before calloc
    beyond,     \* the memory just past the array, where softc[cpu_count + 1] lands
    files,      \* open descriptors: files[k] is the cpu whose msr device fd 2+k is
    first,      \* read_power's static flag
    core, first_core, max, core_sum,    \* read_power's and open_msrs' locals
    out,        \* printf calls since the current tick began (startup: since main)
    reads,      \* register reads since the current tick began: [slot, fd, reg]
    rawPrev, rawCur,    \* raw value read per slot in the previous / current tick
    failedIn,   \* where a fatal error happened: "none", "classify", ...
    slept       \* argument of the last sleep(), -1 before the first

cfgVars == <<hw, argv, shl31>>
argVars == <<verbose, timeo, scale>>
idVars == <<cpu, cpu_family, cpu_model, pkg_msr, core_msr, dram_msr>>
topoVars == <<share_count, cpu_count>>
unitVars == <<amd_energy_units, energy_units, dram_units>>
memVars == <<softc, beyond, files>>
loopVars == <<core, first_core, max, core_sum>>
histVars == <<reads, rawPrev, rawCur, slept>>
vars == <<cfgVars, pc, status, argVars, idVars, topoVars, unitVars, memVars,
          first, loopVars, out, histVars, failedIn>>

NoRaw == 0 - 1

\* the state of the process image when main is entered, on one of the
\* machines, with a share field and a processor count of the given sets
StartWith(machines, shares, procs) ==
    /\ hw \in { [vendor |-> m.vendor, family |-> m.family, model |-> m.model,
                  id |-> m.id, share |-> s, nprocs |-> p] :
                m \in machines, s \in shares, p \in procs }
    /\ argv \in { [v |-> v, interval |-> i] : v \in VerboseArgs, i \in IntervalArgs }
    /\ shl31 = 0
    /\ pc = "main"
    /\ status = 0 - 1
    /\ verbose = 0 /\ timeo = 1 /\ scale = [num |-> 1, den |-> 1]
    /\ cpu = "AMD" /\ cpu_family = 0 /\ cpu_model = 0
    /\ pkg_msr = NoMsr /\ core_msr = NoMsr /\ dram_msr = NoMsr
    /\ share_count = 0 /\ cpu_count = 0
    /\ amd_energy_units = 0 /\ energy_units = Zero /\ dram_units = Zero
    /\ softc = <<>> /\ beyond = [fd |-> 0, last |-> Zero] /\ files = <<>>
    /\ first = TRUE
    /\ core = 0 /\ first_core = 0 /\ max = 0 /\ core_sum = Zero
    /\ out = <<>> /\ reads = <<>>
    /\ rawPrev = <<>> /\ rawCur = <<>>
    /\ failedIn = "none" /\ slept = 0 - 1

\* the start with no hyperthreading or two threads per unit
Start(machines) == StartWith(machines, {0, 1}, 1 .. MaxProcs)

Init == Start(RunMachines)

\* exit(1) from the place `where`
Exit1(where) ==
    /\ pc' = "exit"
    /\ status' = 1
    /\ failedIn' = where

(* ------------------------------- main --------------------------------- *)
\* timeo = atof(*argv) assigned to an int: the fraction is dropped
AtofToInt(halves) == halves \div 2

Main ==
    /\ pc = "main"
    /\ verbose' = argv.v
    /\ timeo' = IF argv.interval = 0 THEN 1 ELSE AtofToInt(argv.interval)
    /\ scale' = [num |-> 1, den |-> timeo']
    /\ pc' = "identify_cpu"
    /\ UNCHANGED <<cfgVars, status, idVars, topoVars, unitVars, memVars, first,
                   loopVars, out, histVars, failedIn>>

(* --------------------------- identify_cpu ----------------------------- *)
RECURSIVE BitAnd(_, _)
\* a & b on non-negative integers
BitAnd(a, b) ==
    IF a = 0 \/ b = 0 THEN 0
    ELSE (a % 2) * (b % 2) + 2 * BitAnd(a \div 2, b \div 2)

\* mutant: the family 0x19 list without model 0xa0
AmdSupported_NoA0(family, model) ==
    CASE family = 23 -> model \in {8, 49}
      [] family = 25 -> model \in {1, 48, 16, 17, 25}
      [] family = 26 -> model \in {2, 16, 17}
      [] OTHER -> FALSE

\* the switch on cpu_family and cpu_model of the AuthenticAMD branch
AmdSupported(family, model) ==
    CASE family = 23 -> model \in {8, 49}
      [] family = 25 -> model \in {1, 48, 16, 17, 160, 25}
      [] family = 26 -> model \in {2, 16, 17}
      [] OTHER -> FALSE

\* mutant: the family test left out
IntelSupported_AnyFamily(family, model) == TRUE

\* the GenuineIntel branch: the family test; the switch on the model does nothing
IntelSupported(family, model) == family = 6

\* cpuid, the vendor comparison and the family/model switches
IdentifyCpu_Classify ==
    /\ pc = "identify_cpu"
    /\ cpu_family' = CPUID_TO_FAMILY(hw.id)
    /\ cpu_model' = CPUID_TO_MODEL(hw.id)
    /\ \/ /\ hw.vendor = "AuthenticAMD"
          /\ cpu' = "AMD"
          /\ pkg_msr' = AMD_ENERGY_PKG_MSR
          /\ core_msr' = AMD_ENERGY_CORE_MSR
          /\ UNCHANGED dram_msr
          /\ IF AmdSupported(cpu_family', cpu_model')
             THEN /\ pc' = "topology"
                  /\ UNCHANGED <<status, failedIn, out>>
             ELSE /\ Exit1("classify")
                  /\ out' = Append(out, [fmt |-> "unsupported CPU 0x%x 0x%x\n",
                                         ints |-> <<cpu_family', cpu_model'>>,
                                         val |-> NoVal, slot |-> 0 - 1])
       \/ /\ hw.vendor = "GenuineIntel"
          /\ cpu' = "INTEL"
          /\ IF IntelSupported(cpu_family', cpu_model')
             THEN /\ pkg_msr' = INTEL_ENERGY_PKG_MSR
                  /\ dram_msr' = INTEL_ENERGY_DRAM_MSR
                  /\ pc' = "topology"
                  /\ UNCHANGED <<status, failedIn, out, core_msr>>
             ELSE /\ Exit1("classify")
                  /\ out' = Append(out, [fmt |-> "unsupported CPU 0x%x 0x%x\n",
                                         ints |-> <<cpu_family', cpu_model'>>,
                                         val |-> NoVal, slot |-> 0 - 1])
                  /\ UNCHANGED <<pkg_msr, core_msr, dram_msr>>
       \/ /\ hw.vendor \notin {"AuthenticAMD", "GenuineIntel"}
          /\ Exit1("classify")
          /\ out' = Append(out, [fmt |-> "Support for CPU vendor  %s not implemented\n",
                                 ints |-> <<>>, val |-> NoVal, slot |-> 0 - 1])
          /\ UNCHANGED <<cpu, pkg_msr, core_msr, dram_msr>>
    /\ UNCHANGED <<cfgVars, argVars, topoVars, unitVars, memVars, first, loopVars,
                   histVars>>

\* mutant: the division rounds up
PhysicalUnits_RoundUp(nprocs, share) == (nprocs + share - 1) \div share

\* cpu_count: configured processors over the sharing factor, integer division
PhysicalUnits(nprocs, share) == nprocs \div share

\* mutant: the slots are not zeroed (malloc for calloc)
Calloc_NotZeroed(n) == [i \in 0 .. n - 1 |-> [fd |-> 0, last |-> Dy(1, 16)]]

\* calloc(cpu_count + 1, sizeof(*softc)): zeroed slots 0..cpu_count
Calloc(n) == [i \in 0 .. n - 1 |-> [fd |-> 0, last |-> Zero]]

\* cpuid 0x8000001e, sysconf and calloc succeeding
IdentifyCpu_Topology ==
    /\ pc = "topology"
    /\ share_count' = (hw.share % 256) + 1
    /\ cpu_count' = PhysicalUnits(hw.nprocs, share_count')
    /\ softc' = Calloc(cpu_count' + 1)
    /\ rawPrev' = [i \in 0 .. cpu_count' + 1 |-> NoRaw]
    /\ rawCur' = [i \in 0 .. cpu_count' + 1 |-> NoRaw]
    /\ core' = 0
    /\ pc' = "open_msrs"
    /\ UNCHANGED <<cfgVars, status, argVars, idVars, unitVars, beyond, files, first,
                   first_core, max, core_sum, out, reads, slept, failedIn>>

\* calloc returning NULL
IdentifyCpu_NoMemory ==
    /\ pc = "topology"
    /\ share_count' = (hw.share % 256) + 1
    /\ cpu_count' = PhysicalUnits(hw.nprocs, share_count')
    /\ Exit1("calloc")
    /\ UNCHANGED <<cfgVars, argVars, idVars, unitVars, memVars, first, loopVars, out,
                   histVars>>

(* ----------------------------- open_msrs ------------------------------ *)
\* &softc[i] lies in the allocation
InArray(i) == i \in DOMAIN softc

\* the logical cpu whose device open_msrs opens for slot c
OpenTarget(c) == (IF c >= cpu_count THEN 0 ELSE c) * share_count

\* mutant: on Intel the loop skips every core slot, slot 0 included
OpenSkips_EveryCore(c) == c < cpu_count /\ cpu = "INTEL"

\* the loop skips the slot: Intel core slots other than 0
OpenSkips(c) == c < cpu_count /\ cpu = "INTEL" /\ c # 0

\* one iteration that does not open anything
OpenMsrs_Skip ==
    /\ pc = "open_msrs"
    /\ core < cpu_count + 2
    /\ OpenSkips(core)
    /\ core' = core + 1
    /\ UNCHANGED <<cfgVars, pc, status, argVars, idVars, topoVars, unitVars, memVars,
                   first, first_core, max, core_sum, out, histVars, failedIn>>

\* one iteration whose open() succeeds: the descriptor is stored in the slot
OpenMsrs_Open ==
    /\ pc = "open_msrs"
    /\ core < cpu_count + 2
    /\ ~OpenSkips(core)
    /\ files' = Append(files, OpenTarget(core))
    /\ IF InArray(core)
       THEN /\ softc' = [softc EXCEPT ![core].fd = 2 + Len(files')]
            /\ UNCHANGED beyond
       ELSE /\ beyond' = [beyond EXCEPT !.fd = 2 + Len(files')]
            /\ UNCHANGED softc
    /\ core' = core + 1
    /\ UNCHANGED <<cfgVars, pc, status, argVars, idVars, topoVars, unitVars, first,
                   first_core, max, core_sum, out, histVars, failedIn>>

\* one iteration whose open() returns -1
OpenMsrs_Fail ==
    /\ pc = "open_msrs"
    /\ core < cpu_count + 2
    /\ ~OpenSkips(core)
    /\ Exit1("open")
    /\ out' = Append(out, [fmt |-> "Did you remember to modprobe msr?\n",
                           ints |-> <<>>, val |-> NoVal, slot |-> 0 - 1])
    /\ UNCHANGED <<cfgVars, argVars, idVars, topoVars, unitVars, memVars, first,
                   loopVars, histVars>>

\* the loop ends and open_msrs returns
OpenMsrs_Done ==
    /\ pc = "open_msrs"
    /\ core >= cpu_count + 2
    /\ pc' = "read_units"
    /\ UNCHANGED <<cfgVars, status, argVars, idVars, topoVars, unitVars, memVars,
                   first, loopVars, out, histVars, failedIn>>

(* ------------------------------ read_msr ------------------------------ *)
\* pread can return data only through a descriptor of an msr device
IsMsrFd(fd) == fd \in 3 .. 2 + Len(files)

\* the descriptor read_msr uses for slot c; beyond the array it is whatever
\* that memory holds
SlotFd(c) == IF InArray(c) THEN softc[c].fd ELSE beyond.fd

(* ----------------------- identify_cpu: the units ---------------------- *)
\* (data & AMD_ENERGY_UNIT_MASK) >> 8
AmdUnitField(data) == BitAnd(data, AMD_ENERGY_UNIT_MASK) \div 256

\* (data >> 8) & 0x1f
IntelUnitField(data) == BitAnd(data \div 256, 31)

\* pow(0.5, k)
PowHalf(k) == Dy(1, k)

\* the printf calls of identify_cpu at verbose > 1
StartupBanner(units) ==
    IF verbose > 1
    THEN << [fmt |-> "%d threads, %d CPUs\n", ints |-> <<cpu_count * share_count, cpu_count>>,
             val |-> NoVal, slot |-> 0 - 1],
            IF cpu = "AMD"
            THEN [fmt |-> "energy_units %d\n", ints |-> <<units.amd>>, val |-> NoVal,
                  slot |-> 0 - 1]
            ELSE [fmt |-> "energy_units %lf\n", ints |-> <<>>,
                  val |-> [n |-> units.intel.n, e |-> units.intel.e, d |-> 1],
                  slot |-> 0 - 1] >>
    ELSE <<>>

\* the power-unit register is read through softc[0] and the units are set
IdentifyCpu_ReadUnits ==
    /\ pc = "read_units"
    /\ IsMsrFd(SlotFd(0))
    /\ \E data \in PwrUnitData :
         /\ IF cpu = "AMD"
            THEN /\ amd_energy_units' = AmdUnitField(data)
                 /\ IF amd_energy_units' >= 31
                    THEN shl31' \in {0 - 1, 1}
                    ELSE UNCHANGED shl31
                 /\ UNCHANGED <<energy_units, dram_units>>
            ELSE /\ energy_units' = PowHalf(IntelUnitField(data))
                 /\ dram_units' = PowHalf(16)
                 /\ UNCHANGED <<amd_energy_units, shl31>>
         /\ reads' = Append(reads, [slot |-> 0, fd |-> SlotFd(0),
                                    reg |-> IF cpu = "AMD" THEN AMD_ENERGY_PWR_UNIT_MSR
                                            ELSE INTEL_ENERGY_PWR_UNIT_MSR])
         /\ out' = out \o StartupBanner([amd |-> amd_energy_units', intel |-> energy_units'])
    /\ pc' = "read_power"
    /\ UNCHANGED <<hw, argv, status, argVars, idVars, topoVars, memVars, first,
                   loopVars, rawPrev, rawCur, slept, failedIn>>

\* the read of the power-unit register fails: perror and exit(1)
IdentifyCpu_ReadUnitsFail ==
    /\ pc = "read_units"
    /\ Exit1("read_units")
    /\ UNCHANGED <<cfgVars, argVars, idVars, topoVars, unitVars, memVars, first,
                   loopVars, out, histVars>>

(* ------------------------- the conversions ---------------------------- *)
\* (1 << k) as [sign, exponent]: an int shift; by 31 it overflows the int
\* (undefined) and the build decides the result: INT_MIN, or 2^31
ShiftOne(k) == [sign |-> IF k >= 31 THEN shl31 ELSE 1, exp |-> k]


\* energy = (input * 1000000.0) / (1 << amd_energy_units), not reduced;
\* divisor is the value of the shift
amd_add_power(input, divisor) ==
    [n |-> divisor.sign * (input * 1000000), e |-> divisor.exp]

\* watts = energy / 1000000.0: the quotient is a dyadic, so the division is exact
MicroToWatts(energy) == Dy(energy.n \div 1000000, energy.e)

\* input * units
intel_add_power(input, units) == Dy(input * units.n, units.e)

\* the watts read_power computes from the raw value read for slot c
Watts(c, data, divisor) ==
    IF cpu = "AMD"
    THEN MicroToWatts(amd_add_power(data, divisor))
    ELSE intel_add_power(data, IF c = cpu_count THEN energy_units ELSE dram_units)

(* ------------------------------ read_power ---------------------------- *)
\* first_core of the read range
FirstCore ==
    IF verbose # 0 /\ core_msr # NoMsr THEN 0 ELSE cpu_count

\* mutant: the DRAM extension of the range left out
MaxCore_NoDram == cpu_count + 1

\* max of the read range (exclusive)
MaxCore ==
    IF verbose # 0 /\ core_msr # NoMsr THEN cpu_count + 1
    ELSE IF verbose # 0 /\ dram_msr # NoMsr THEN cpu_count + 2
    ELSE cpu_count + 1

\* mutant: the package slot reads the power-unit register in every tick
RegOf_UnitForPkg(c) ==
    IF c = cpu_count
    THEN (IF cpu = "AMD" THEN AMD_ENERGY_PWR_UNIT_MSR ELSE INTEL_ENERGY_PWR_UNIT_MSR)
    ELSE IF c > cpu_count THEN dram_msr ELSE core_msr

\* mutant: every slot reads the package register
RegOf_PkgEverywhere(c) == pkg_msr

\* the register read for slot c
RegOf(c) ==
    IF c = cpu_count THEN pkg_msr
    ELSE IF c = cpu_count + 1 THEN dram_msr
    ELSE core_msr

Rule == [fmt |-> "====\n", ints |-> <<>>, val |-> NoVal, slot |-> 0 - 1]
Newline == [fmt |-> "\n", ints |-> <<>>, val |-> NoVal, slot |-> 0 - 1]

\* mutant: the first tick is suppressed at verbosity 0 only
Suppressed_OnlyQuiet == first /\ verbose < 1

\* `first && verbose < 2`: the iteration prints nothing and skips core_sum
Suppressed == first /\ verbose < 2

\* the condition under which " core sum=" follows the package value
PrintsCoreSum == verbose # 0 /\ amd_energy_units # 0

\* the condition of the per-core branch of the printing chain
PrintsCoreRow == verbose # 0 /\ amd_energy_units # 0

\* the printf calls of the package branch
PkgCalls(c, delta) ==
    << [fmt |-> IF verbose = 0 THEN "%4.2lf" ELSE "pkg: %4.2lf", ints |-> <<>>,
        val |-> Scaled(delta, scale), slot |-> c] >>
    \o (IF PrintsCoreSum
        THEN << [fmt |-> "  core sum=%4.2lf\n", ints |-> <<>>,
                 val |-> Scaled(core_sum, scale), slot |-> 0 - 1] >>
        ELSE <<>>)
    \o (IF c = max - 1 THEN <<Newline>> ELSE <<>>)

\* the printf calls of the DRAM branch
DramCalls(c, delta) ==
    << [fmt |-> "\tdram: %4.2lf", ints |-> <<>>, val |-> Scaled(delta, scale),
        slot |-> c] >>
    \o (IF c = max - 1 THEN <<Newline>> ELSE <<>>)

\* the printf calls of the per-core branch
CoreCalls(c, delta) ==
    (IF c = 0 THEN <<Rule>> ELSE <<>>)
    \o (IF c % 8 = 0
        THEN << [fmt |-> "core %3d:\t", ints |-> <<c>>, val |-> NoVal, slot |-> 0 - 1] >>
        ELSE <<>>)
    \o << [fmt |-> "%3.2lf\t", ints |-> <<>>, val |-> Scaled(delta, scale), slot |-> c] >>
    \o (IF (c % 8 = 7) \/ (c = cpu_count - 1) THEN <<Newline>> ELSE <<>>)
    \o (IF c = cpu_count - 1 THEN <<Rule>> ELSE <<>>)

\* the if / else-if chain that prints one iteration's result
Calls(c, delta) ==
    IF c = cpu_count THEN PkgCalls(c, delta)
    ELSE IF verbose # 0 /\ c = cpu_count + 1 THEN DramCalls(c, delta)
    ELSE IF PrintsCoreRow THEN CoreCalls(c, delta)
    ELSE <<>>

\* the values sc->last may yield: the slot's own, or, beyond the array,
\* whatever that memory holds by then
LastRead(c) ==
    IF InArray(c) THEN {softc[c].last} ELSE StrayLast \cup {beyond.last}

\* entry of read_power up to the loop
ReadPower_Begin ==
    /\ pc = "read_power"
    /\ core_sum' = Zero
    /\ first_core' = FirstCore
    /\ max' = MaxCore
    /\ core' = FirstCore
    /\ out' = <<>>
    /\ reads' = <<>>
    /\ rawPrev' = rawCur
    /\ rawCur' = [i \in DOMAIN rawCur |-> NoRaw]
    /\ pc' = "rp_loop"
    /\ UNCHANGED <<cfgVars, status, argVars, idVars, topoVars, unitVars, memVars,
                   first, slept, failedIn>>

\* one iteration of the loop whose read succeeds
ReadPower_Iter ==
    /\ pc = "rp_loop"
    /\ core < max
    /\ IsMsrFd(SlotFd(core))
    /\ \E data \in RawValues, lastv \in LastRead(core) :
         LET watts == Watts(core, data, ShiftOne(amd_energy_units))
             delta == DSub(watts, lastv)
         IN  /\ IF InArray(core)
                THEN /\ softc' = [softc EXCEPT ![core].last = watts]
                     /\ UNCHANGED beyond
                ELSE /\ beyond' = [beyond EXCEPT !.last = watts]
                     /\ UNCHANGED softc
             /\ reads' = Append(reads, [slot |-> core, fd |-> SlotFd(core),
                                        reg |-> RegOf(core)])
             /\ rawCur' = [rawCur EXCEPT ![core] = data]
             /\ IF Suppressed
                THEN UNCHANGED <<out, core_sum>>
                ELSE /\ out' = out \o Calls(core, delta)
                     /\ core_sum' = DAdd(core_sum, delta)
    /\ core' = core + 1
    /\ UNCHANGED <<cfgVars, pc, status, argVars, idVars, topoVars, unitVars, files,
                   first, first_core, max, rawPrev, slept, failedIn>>

\* one iteration of the loop whose read fails: perror and exit(1)
ReadPower_IterFail ==
    /\ pc = "rp_loop"
    /\ core < max
    /\ Exit1("read_power")
    /\ UNCHANGED <<cfgVars, argVars, idVars, topoVars, unitVars, memVars, first,
                   loopVars, out, histVars>>

\* an iteration whose slot lies beyond the array: the store to sc->last lands
\* on memory the allocator owns, and the process may be aborted for it
ReadPower_IterAbort ==
    /\ pc = "rp_loop"
    /\ core < max
    /\ ~InArray(core)
    /\ pc' = "exit"
    /\ status' = 134
    /\ failedIn' = "abort"
    /\ UNCHANGED <<cfgVars, argVars, idVars, topoVars, unitVars, memVars, first,
                   loopVars, out, histVars>>

\* the loop is over: first = false, fflush
ReadPower_End ==
    /\ pc = "rp_loop"
    /\ core >= max
    /\ first' = FALSE
    /\ pc' = "sleep"
    /\ UNCHANGED <<cfgVars, status, argVars, idVars, topoVars, unitVars, memVars,
                   loopVars, out, reads, rawPrev, rawCur, slept, failedIn>>

\* sleep(timeo) in main's loop
Sleep ==
    /\ pc = "sleep"
    /\ slept' = timeo
    /\ pc' = "read_power"
    /\ UNCHANGED <<cfgVars, status, argVars, idVars, topoVars, unitVars, memVars,
                   first, loopVars, out, reads, rawPrev, rawCur, failedIn>>

(* --------------------------- specifications --------------------------- *)
Startup ==
    \/ Main
    \/ IdentifyCpu_Classify
    \/ IdentifyCpu_Topology
    \/ IdentifyCpu_NoMemory
    \/ OpenMsrs_Skip
    \/ OpenMsrs_Open
    \/ OpenMsrs_Fail
    \/ OpenMsrs_Done
    \/ IdentifyCpu_ReadUnits
    \/ IdentifyCpu_ReadUnitsFail

Next ==
    \/ Main
    \/ IdentifyCpu_Classify
    \/ IdentifyCpu_Topology
    \/ IdentifyCpu_NoMemory
    \/ OpenMsrs_Skip
    \/ OpenMsrs_Open
    \/ OpenMsrs_Fail
    \/ OpenMsrs_Done
    \/ IdentifyCpu_ReadUnits
    \/ IdentifyCpu_ReadUnitsFail
    \/ ReadPower_Begin
    \/ ReadPower_Iter
    \/ ReadPower_IterFail
    \/ ReadPower_IterAbort
    \/ ReadPower_End
    \/ Sleep

Spec == Init /\ [][Next]_vars

\* startup alone, on every machine of the classification domain
InitStartup == Start(AllMachines)
SpecStartup == InitStartup /\ [][Startup]_vars

\* startup alone, on two supported machines, over the topology inputs
TopoMachines == { Machine("AuthenticAMD", 25, 48), Machine("GenuineIntel", 6, 79) }
InitTopology == StartWith(TopoMachines, 0 .. MaxShareField, 1 .. MaxTopoProcs)
SpecTopology == InitTopology /\ [][Startup]_vars

(* ------------------------ reading the history ------------------------- *)
\* a tick has run to its end; out, reads and rawCur are that tick's
TickDone == pc = "sleep"

\* a tick is running or has just ended, or was cut short by a failed read
InTick == pc \in {"rp_loop", "sleep"} \/ (pc = "exit" /\ failedIn = "read_power")

\* no earlier tick read the package register: the tick is the first one
IsFirstTick == rawPrev[cpu_count] = NoRaw

\* the tick is one whose output the program suppresses
IsSuppressedTick == IsFirstTick /\ argv.v < 2

IsAmd == hw.vendor = "AuthenticAMD"
IsIntel == hw.vendor = "GenuineIntel"

\* positions in out of the printf calls with one of the formats
CallsOf(fmts) == {i \in DOMAIN out : out[i].fmt \in fmts}

PkgFmts == {"%4.2lf", "pkg: %4.2lf"}
CoreSumFmts == {"  core sum=%4.2lf\n"}
DramFmts == {"\tdram: %4.2lf"}
TableFmts == {"====\n", "core %3d:\t", "%3.2lf\t"}
\* the formats that end a line
LineEndFmts == {"\n", "  core sum=%4.2lf\n", "====\n"}

\* the identities the specification lists as supported
Accepted(vendor, family, model) ==
    \/ /\ vendor = "AuthenticAMD"
       /\ \/ family = 23 /\ model \in {8, 49}
          \/ family = 25 /\ model \in {1, 16, 17, 25, 48, 160}
          \/ family = 26 /\ model \in {2, 16, 17}
    \/ vendor = "GenuineIntel" /\ family = 6

HwAccepted == Accepted(hw.vendor, hw.family, hw.model)

(* ------------------------------- claims ------------------------------- *)
\* the vendor conversion f as C1 states it: AMD raw * 1e6 / 2^exponent / 1e6,
\* Intel raw * energy_units for the package and raw * dram_units for DRAM
StatedF(s, raw) ==
    IF IsAmd THEN Dy(raw, amd_energy_units)
    ELSE IF s = cpu_count THEN Dy(raw * energy_units.n, energy_units.e)
    ELSE Dy(raw * dram_units.n, dram_units.e)

\* C1: a handle read in two consecutive ticks with raw values r1 <= r2 reports,
\* on the second tick, the delta scale * (f(r2) - f(r1)), for both vendors
C1_DeltaIsScaledDifference ==
    InTick =>
        \A i \in DOMAIN out :
            LET s == out[i].slot IN
            (s >= 0 /\ rawPrev[s] # NoRaw /\ rawCur[s] # NoRaw /\ rawPrev[s] <= rawCur[s])
                => out[i].val = Scaled(DSub(StatedF(s, rawCur[s]), StatedF(s, rawPrev[s])),
                                       scale)

\* C2: the first tick prints nothing at verbosity < 2; at verbosity >= 2 it
\* prints the package delta, equal to f(initial reading) * scale; every later
\* tick prints the package delta at every verbosity
C2_FirstTickBaseline ==
    TickDone =>
        /\ (IsFirstTick /\ argv.v < 2) => out = <<>>
        /\ (IsFirstTick /\ argv.v >= 2) =>
              /\ Cardinality(CallsOf(PkgFmts)) = 1
              /\ \A i \in CallsOf(PkgFmts) :
                    out[i].val = Scaled(Watts(cpu_count, rawCur[cpu_count],
                                              ShiftOne(amd_energy_units)), scale)
        /\ ~IsFirstTick => Cardinality(CallsOf(PkgFmts)) = 1

C2_Witness ==
    TickDone /\ IsFirstTick /\ argv.v >= 2 /\ rawCur[cpu_count] > 0
        /\ CallsOf(PkgFmts) # {}

\* the registers a tick is to read, as <<unit index, address>>
StatedReads ==
    IF argv.v = 0 THEN { <<cpu_count, IF IsAmd THEN AMD_ENERGY_PKG_MSR
                                       ELSE INTEL_ENERGY_PKG_MSR>> }
    ELSE IF IsAmd
    THEN { <<c, AMD_ENERGY_CORE_MSR>> : c \in 0 .. cpu_count - 1 }
            \cup { <<cpu_count, AMD_ENERGY_PKG_MSR>> }
    ELSE { <<cpu_count, INTEL_ENERGY_PKG_MSR>>, <<cpu_count + 1, INTEL_ENERGY_DRAM_MSR>> }

\* C3: a tick reads exactly the package register at verbosity 0; on AMD at
\* verbosity >= 1 every unit's core register and the package register; on
\* Intel at verbosity >= 1 the package and the DRAM register; each once
C3_ReadRange ==
    TickDone =>
        /\ { <<reads[i].slot, reads[i].reg>> : i \in DOMAIN reads } = StatedReads
        /\ Len(reads) = Cardinality(StatedReads)

C3_Witness ==
    TickDone /\ argv.v >= 1 /\ IsAmd /\ cpu_count >= 2 /\ Len(reads) = cpu_count + 1

\* C4: a failed register read ends the process with status 1 and nothing
\* computed in the failing tick is emitted
C4_NoPartialOutput ==
    (pc = "exit" /\ failedIn \in {"read_units", "read_power"}) =>
        status = 1 /\ out = <<>>

\* C5: at verbosity >= 1 on AMD every non-suppressed tick's package report is
\* followed by the core sum, whatever the unit exponent; on Intel never
C5_CoreSumOnAmd ==
    TickDone =>
        /\ (IsAmd /\ argv.v >= 1 /\ ~IsSuppressedTick) =>
              \A i \in CallsOf(PkgFmts) :
                  i + 1 \in DOMAIN out /\ out[i + 1].fmt \in CoreSumFmts
        /\ IsIntel => CallsOf(CoreSumFmts) = {}

\* C6 as stated: the per-core table is printed only at verbosity >= 2 on AMD,
\* never at verbosity 1
C6_TableOnlyAtVerbosity2 ==
    InTick => (CallsOf(TableFmts) # {} => argv.v >= 2 /\ IsAmd)

\* C6 amended: the per-core table is printed only at verbosity >= 1 on AMD;
\* at verbosity 1 the first tick prints none
C6_TableOnlyWhenVerboseOnAmd ==
    InTick =>
        /\ CallsOf(TableFmts) # {} => argv.v >= 1 /\ IsAmd
        /\ (argv.v = 1 /\ IsFirstTick) => CallsOf(TableFmts) = {}

C6_Witness ==
    TickDone /\ argv.v = 1 /\ IsAmd /\ CallsOf({"core %3d:\t"}) # {}
        /\ CallsOf({"====\n"}) # {}

\* C7: at verbosity 0 and 1 a non-suppressed tick's report, from the package
\* value on, holds exactly one line end, and it is the last thing printed;
\* on Intel with DRAM the dram field comes between the package value and it
C7_OneNewlinePerTick ==
    (TickDone /\ argv.v <= 1 /\ ~IsSuppressedTick) =>
        \A i \in CallsOf(PkgFmts) :
            /\ Cardinality({j \in CallsOf(LineEndFmts) : j > i}) = 1
            /\ out[Len(out)].fmt \in LineEndFmts
            /\ (IsIntel /\ argv.v = 1) =>
                  i + 1 \in CallsOf(DramFmts) /\ Len(out) = i + 2

\* C8: scale is 1 / interval and sleep lasts the interval, for every positive
\* real interval; without an argument both are 1 (argv.interval is in halves)
C8_ScaleIsReciprocalInterval ==
    pc # "main" =>
        /\ argv.interval = 0 =>
              scale = [num |-> 1, den |-> 1] /\ (slept # 0 - 1 => slept = 1)
        /\ argv.interval > 0 =>
              /\ scale.num * argv.interval = 2 * scale.den
              /\ slept # 0 - 1 => 2 * slept = argv.interval

\* C9: classification lets a processor through exactly when it is of the
\* supported AMD (family, model) pairs or Intel family 6; every other one
\* exits with status 1; the verbosity plays no part
C9_ClassificationAllowList ==
    pc \notin {"main", "identify_cpu"} =>
        /\ HwAccepted <=> ~(pc = "exit" /\ failedIn = "classify")
        /\ failedIn = "classify" => status = 1
        /\ cpu_family = hw.family /\ cpu_model = hw.model

C9_Witness ==
    /\ pc = "topology" /\ IsAmd /\ hw.family = 25 /\ hw.model = 160 /\ argv.v = 2

\* C10: an unsupported vendor, family or model exits with status 1 before any
\* handle is opened and before any register is read, and no tick runs
C10_RejectedBeforeAnyAccess ==
    ~HwAccepted =>
        /\ pc \in {"main", "identify_cpu", "exit"}
        /\ pc = "exit" => status = 1 /\ failedIn = "classify"
        /\ files = <<>> /\ reads = <<>> /\ softc = <<>>
        /\ rawCur = <<>> /\ first

C10_Witness ==
    pc = "exit" /\ status = 1 /\ IsIntel /\ hw.family = 15 /\ files = <<>>

\* startup went through: the process is in the sampling loop, or left it
StartupDone == failedIn \notin {"classify", "calloc", "open", "read_units"}
                 /\ pc \in {"read_power", "rp_loop", "sleep", "exit"}

\* C11: once startup has succeeded the process has no terminal state: it does
\* not exit unless a register read failed
C11_ExitsOnlyOnReadFailure ==
    (StartupDone /\ pc = "exit") => failedIn = "read_power"

\* C12: the physical-unit count is p / s by integer division, for every
\* processor count p and sharing factor s >= 1 (s = field + 1)
C12_PhysicalUnitCount ==
    pc \in {"open_msrs", "read_units", "read_power"} =>
        /\ share_count = hw.share + 1
        /\ cpu_count * share_count <= hw.nprocs
        /\ hw.nprocs < (cpu_count + 1) * share_count

C12_Witness ==
    pc = "open_msrs" /\ hw.nprocs = 7 /\ hw.share = 1 /\ cpu_count = 3

\* the slots open_msrs or a tick have accessed so far
SlotsTouched ==
    {i \in DOMAIN softc : softc[i].fd # 0}
        \cup (IF beyond.fd # 0 THEN {cpu_count + 1} ELSE {})
        \cup {reads[i].slot : i \in DOMAIN reads}

\* C13: every slot index startup or a tick accesses is smaller than the
\* number of slots allocated; the DRAM slot cpu_count + 1 is in the array
C13_SlotsInsideArray ==
    DOMAIN softc # {} =>
        \A i \in SlotsTouched : i < Cardinality(DOMAIN softc) /\ InArray(i)

\* C14: the address a tick reads is fixed by the handle index: index cpu_count
\* reads the package register, cpu_count + 1 the DRAM register (Intel only),
\* 0..cpu_count-1 the per-core register (AMD only); on Intel the package
\* index is converted with energy_units and the DRAM index with dram_units
C14_AddressByIndex ==
    InTick =>
        /\ \A i \in DOMAIN reads :
              LET r == reads[i] IN
              /\ r.slot \in 0 .. cpu_count + 1
              /\ r.slot = cpu_count =>
                    r.reg = IF IsAmd THEN AMD_ENERGY_PKG_MSR ELSE INTEL_ENERGY_PKG_MSR
              /\ r.slot = cpu_count + 1 => IsIntel /\ r.reg = INTEL_ENERGY_DRAM_MSR
              /\ r.slot < cpu_count => IsAmd /\ r.reg = AMD_ENERGY_CORE_MSR
        /\ IsIntel =>
              /\ rawCur[cpu_count] # NoRaw =>
                    softc[cpu_count].last
                        = Dy(rawCur[cpu_count] * energy_units.n, energy_units.e)
              /\ rawCur[cpu_count + 1] # NoRaw =>
                    beyond.last
                        = Dy(rawCur[cpu_count + 1] * dram_units.n, dram_units.e)

C14_Witness ==
    TickDone /\ IsIntel /\ Len(reads) = 2 /\ energy_units # dram_units
        /\ rawCur[cpu_count] = 1 /\ rawCur[cpu_count + 1] = 1

\* the delta of core c in the current tick, from the raw values of this tick
\* and of the one before
CoreDelta(c) ==
    DSub(Watts(c, rawCur[c], ShiftOne(amd_energy_units)),
         IF rawPrev[c] = NoRaw THEN Zero
         ELSE Watts(c, rawPrev[c], ShiftOne(amd_energy_units)))

RECURSIVE CoreDeltaSum(_)
\* the sum of the deltas of cores 0..k-1
CoreDeltaSum(k) ==
    IF k = 0 THEN Zero ELSE DSub(CoreDeltaSum(k - 1), DSub(Zero, CoreDelta(k - 1)))

\* C15: in a tick that reads core registers and is not suppressed, all cores
\* are read before the package, in ascending order, and the core sum printed
\* with the package line is the sum of this tick's deltas of all the cores
C15_CoreSumIsSumOfCoreDeltas ==
    (TickDone /\ ~IsSuppressedTick /\ \E i \in DOMAIN reads : reads[i].slot < cpu_count) =>
        /\ Len(reads) = cpu_count + 1
        /\ \A i \in DOMAIN reads : reads[i].slot = i - 1
        /\ \A j \in CallsOf(CoreSumFmts) :
              out[j].val = Scaled(CoreDeltaSum(cpu_count), scale)

C15_Witness ==
    TickDone /\ ~IsFirstTick /\ cpu_count = 2 /\ CallsOf(CoreSumFmts) # {}
        /\ rawPrev[0] = 0 /\ rawCur[0] = 1 /\ rawPrev[1] = 0 /\ rawCur[1] = 1
        /\ scale.den = 2

\* the power-unit register of the vendor
PwrUnitMsr == IF IsAmd THEN AMD_ENERGY_PWR_UNIT_MSR ELSE INTEL_ENERGY_PWR_UNIT_MSR

\* the number of handles open_msrs opens: every slot on AMD; unit 0, the
\* package slot and the DRAM slot on Intel
HandlesOpened ==
    IF IsAmd THEN cpu_count + 2 ELSE (IF cpu_count >= 1 THEN 1 ELSE 0) + 2

\* the values every tick relies on
TickConfig ==
    <<unitVars, pkg_msr, core_msr, dram_msr, cpu_count, share_count, scale>>

\* startup is over and the first tick has not begun
BeforeFirstTick == pc = "read_power" /\ first

\* C16: the power-unit register is read exactly once, at startup, after
\* every handle is opened and before the first tick; no tick reads it again,
\* opens a handle, or changes the unit scale, the register addresses,
\* cpu_count, share_count or scale
C16_UnitReadOnceAtStartup ==
    /\ [](pc \in {"main", "identify_cpu", "topology", "open_msrs", "read_units"}
             => reads = <<>>)
    /\ [](BeforeFirstTick =>
             /\ Len(reads) = 1
             /\ reads[1].reg = PwrUnitMsr
             /\ Len(files) = HandlesOpened)
    /\ []((StartupDone /\ ~BeforeFirstTick) =>
             \A i \in DOMAIN reads : reads[i].reg # PwrUnitMsr)
    /\ [][/\ files' # files => pc = "open_msrs"
          /\ pc \in {"read_power", "rp_loop", "sleep"} => UNCHANGED TickConfig]_vars

C16_Witness ==
    /\ pc = "sleep" /\ ~first /\ ~IsFirstTick
    /\ IsAmd /\ cpu_count = 2 /\ amd_energy_units = 10
    /\ Len(files) = 4 /\ Len(reads) = 3

\* C17: for every value 0..31 of the 5-bit exponent field the AMD conversion
\* divides the raw register by exactly 2^exponent, a positive divisor: the
\* value stored for a slot read in this tick is raw / 2^amd_energy_units
C17_AmdDividesByPowerOfTwo ==
    (InTick /\ IsAmd) =>
        \A c \in 0 .. cpu_count :
            rawCur[c] # NoRaw => softc[c].last = Dy(rawCur[c], amd_energy_units)

\* what the claim about the table looks at in one printf call
Shape(call) == <<call.fmt, call.ints, call.slot>>

RECURSIVE TableShape(_)
\* the table of cores 0..k-1 of n as C18 describes it: the opening rule, then
\* per core the `core <N>:` prefix at every multiple of 8, the core's delta,
\* and a row break after every 8th core and after core n-1
TableShape(k) ==
    IF k = 0 THEN <<Shape(Rule)>>
    ELSE LET c == k - 1 IN
         TableShape(c)
         \o (IF c % 8 = 0 THEN << <<"core %3d:\t", <<c>>, 0 - 1>> >> ELSE <<>>)
         \o << <<"%3.2lf\t", <<>>, c>> >>
         \o (IF c % 8 = 7 \/ c = cpu_count - 1 THEN <<Shape(Newline)>> ELSE <<>>)

\* C18: at verbosity >= 2 on AMD with n >= 1 physical units each tick prints
\* the opening rule, the n core deltas in ascending order once each, with a
\* `core <N>:` prefix at every multiple of 8 and a row break after every 8th
\* core and after core n-1, the closing rule, and only then the package line
C18_TableBeforePackage ==
    (TickDone /\ IsAmd /\ argv.v >= 2 /\ cpu_count >= 1) =>
        LET table == TableShape(cpu_count) \o <<Shape(Rule)>>
            k == Len(table)
        IN  /\ Len(out) > k
            /\ \A i \in 1 .. k : Shape(out[i]) = table[i]
            /\ out[k + 1].fmt \in PkgFmts /\ out[k + 1].slot = cpu_count
            /\ \A i \in k + 1 .. Len(out) : out[i].fmt \notin TableFmts

\* open_msrs stored a descriptor of an msr device in slot c
SlotOpened(c) == IsMsrFd(SlotFd(c))

\* the slots open_msrs opened
OpenedSlots == {c \in 0 .. cpu_count + 1 : SlotOpened(c)}

\* C19: every register read, at startup or in a tick, goes through a slot
\* whose handle startup opened: on Intel only unit 0, the package slot and
\* the DRAM slot are opened and no tick reads through slots 1..cpu_count-1;
\* on AMD every slot a tick reads was opened; also for cpu_count 0 and 1
C19_ReadsThroughOpenedSlots ==
    /\ pc = "read_units" => SlotOpened(0)
    /\ (pc = "rp_loop" /\ core < max) => SlotOpened(core)
    /\ \A i \in DOMAIN reads :
          /\ SlotOpened(reads[i].slot)
          /\ reads[i].fd = SlotFd(reads[i].slot)
    /\ (IsIntel /\ (pc = "read_units" \/ StartupDone)) =>
          /\ OpenedSlots = (IF cpu_count >= 1 THEN {0} ELSE {})
                               \cup {cpu_count, cpu_count + 1}
          /\ \A k \in DOMAIN files : files[k] = 0
          /\ \A i \in DOMAIN reads : reads[i].slot \notin 1 .. cpu_count - 1
    /\ (IsAmd /\ (pc = "read_units" \/ StartupDone)) =>
          OpenedSlots = 0 .. cpu_count + 1

C19_Witness ==
    /\ TickDone /\ IsIntel /\ cpu_count = 2 /\ argv.v >= 1
    /\ ~SlotOpened(1) /\ Len(reads) = 2

====
